---- MODULE Spec2Model ----
(***************************************************************************)
(* Model of main.py: the register allocation graph (tables of variables,   *)
(* their links and per-register priorities) with the operations createLink *)
(* and allocateRegisterToVariable, and the layout search iterateToSolution *)
(* as used by arrangeInGrid.  Only the data the operations compute is      *)
(* modelled; the animation calls have no effect on it.                     *)
(***************************************************************************)
EXTENDS Integers, Sequences, FiniteSets, TLC

VARIABLES
    tables,     \* graph.tables: sequence of tables, each [data: name -> row]
    last,       \* the last call made on the graph, its arguments and the exception raised
    allocated,  \* variable references allocateRegisterToVariable has been applied to
    linksLeft,  \* createLink calls the run may still complete
    allocsLeft, \* allocateRegisterToVariable calls the run may still complete
    callsLeft,  \* calls of either kind the run may still complete
    mode,       \* "graph", "func" (iterateToSolution on a tabulated func) or "grid"
    pc,         \* position in iterateToSolution / arrangeInGrid
    goal,       \* iterateToSolution's goal, a ratio <<numerator, denominator>>
    min,        \* iterateToSolution's min
    max,        \* iterateToSolution's max
    input,      \* iterateToSolution's input
    func,       \* the tabulated func of mode "func": input -> integer value
    elems,      \* arrangeInGrid's elems: sequence of <<width, height>>
    padding,    \* arrangeInGrid's padding
    target,     \* arrangeInGrid's <<targetWidth, targetHeight>>
    ret,        \* what iterateToSolution returned: <<first, output>>
    scale,      \* arrangeInGrid's scale, a ratio <<numerator, denominator>>
    hist        \* bookkeeping: initial min and max, inputs passed to func, call count

gvars == <<tables, last, allocated, linksLeft, allocsLeft, callsLeft, callsLeft>>
ivars == <<mode, pc, goal, min, max, input, func, elems, padding, target, ret, scale, hist>>
vars == <<tables, last, allocated, linksLeft, allocsLeft, callsLeft,
          mode, pc, goal, min, max, input, func, elems, padding, target, ret, scale, hist>>

(***************************************************************************)
(* Bounds of the model.                                                    *)
(***************************************************************************)
MaxCalls == 3          \* calls in one run
AnyCalls == 1          \* calls that complete in a run with erroneous calls
DeepLinks == 3         \* createLink calls in one run of the deeper specification
DeepAllocs == 2        \* allocateRegisterToVariable calls in one run of it
MaxStrength == 2       \* link strengths are drawn from 1..MaxStrength
MaxTableIndex == 2     \* table indices of erroneous calls are drawn from 0..MaxTableIndex
MaxRegister == 5       \* registers of erroneous calls are drawn from 0..MaxRegister

MaxMax == 4            \* iterateToSolution's max is drawn from 1..MaxMax
MaxValue == 2          \* values of a tabulated func, and goals, are drawn from 0..MaxValue
MaxElems == 3          \* arrangeInGrid is given 1..MaxElems elements

(***************************************************************************)
(* Program constants and data.                                             *)
(***************************************************************************)
number_of_registers == 4

\* The variable name lists the scene constructs its graph from.
varNamesList == << <<"index">>, <<"index", "number">> >>

\* Names used by calls; "ghost" is in no table.
Names == {"index", "number", "ghost"}

variableReference(i, n) ==
    [indexOfRegisterAllocationTable |-> i, nameOfVariableWithinTable |-> n]

variableLink(v, s) == [variable |-> v, strength |-> s]

Range(s) == {s[i] : i \in DOMAIN s}

\* registerPrioratiesAndLinks([]): no links, the default priorities.
registerPrioratiesAndLinks == [links |-> <<>>, prioraties |-> <<0, 0, 0, 0, 0>>]

generateRegisterAllocationTable(variables) ==
    [data |-> [var \in Range(variables) |-> registerPrioratiesAndLinks]]

generateRegisterAllocationGraph(namesList) ==
    [i \in DOMAIN namesList |-> generateRegisterAllocationTable(namesList[i])]

\* References that name a variable of a table of the constructed graph.
ValidRefs ==
    {r \in {variableReference(i - 1, n) : i \in DOMAIN varNamesList, n \in Names} :
        r.nameOfVariableWithinTable
            \in Range(varNamesList[r.indexOfRegisterAllocationTable + 1])}

AllRefs == {variableReference(i, n) : i \in 0..MaxTableIndex, n \in Names}

Row(tabs, varRef) ==
    tabs[varRef.indexOfRegisterAllocationTable + 1].data[varRef.nameOfVariableWithinTable]

(***************************************************************************)
(* Errors.  Table indices and registers are non-negative here, so a list   *)
(* index is in range iff it is below the length of the list.               *)
(***************************************************************************)
\* graph.tables[i], then list(table.data.keys()).index(name)
\* A lookup that does not search the table's names.
getRowFromVarRef_noNameSearch(tabs, varRef) ==
    IF varRef.indexOfRegisterAllocationTable >= Len(tabs) THEN "IndexError" ELSE "none"

getRowFromVarRef(tabs, varRef) ==
    IF varRef.indexOfRegisterAllocationTable >= Len(tabs) THEN "IndexError"
    ELSE IF varRef.nameOfVariableWithinTable
              \notin DOMAIN tabs[varRef.indexOfRegisterAllocationTable + 1].data
         THEN "ValueError"
         ELSE "none"

\* The kinds of the mobjects of a table's label row: column 0 heads the row
\* labels, then come one text per register and the text "Unknown".
colLabels == <<"VMobject">> \o [i \in 1..(number_of_registers + 1) |-> "Text"]

convertToType(instance, target_type) ==
    IF instance = target_type THEN "none" ELSE "AssertionError"

\* table.backingTable.get_columns().submobjects[register+1], then its entry 0
getColFromRegister(register) ==
    IF register + 1 >= Len(colLabels) THEN "IndexError"
    ELSE convertToType(colLabels[register + 2], "Text")

(***************************************************************************)
(* Operations on the data.                                                 *)
(***************************************************************************)
\* The data effect of addToTableCell: prioraties[register] += added.value
addToTableCell(tabs, varRef, register, added) ==
    [tabs EXCEPT ![varRef.indexOfRegisterAllocationTable + 1]
                    .data[varRef.nameOfVariableWithinTable]
                    .prioraties[register + 1] = @ + added]

appendLink(tabs, varRef, link) ==
    [tabs EXCEPT ![varRef.indexOfRegisterAllocationTable + 1]
                    .data[varRef.nameOfVariableWithinTable]
                    .links = Append(@, link)]

setLinks(tabs, varRef, l) ==
    [tabs EXCEPT ![varRef.indexOfRegisterAllocationTable + 1]
                    .data[varRef.nameOfVariableWithinTable]
                    .links = l]

\* createLink forgetting the Unknown column of toVar.
createLinkFunc_oneSided(tabs, fromVar, toVar, strength) ==
    LET t1 == appendLink(tabs, fromVar, variableLink(toVar, strength))
        t2 == appendLink(t1, toVar, variableLink(fromVar, strength))
    IN  addToTableCell(t2, fromVar, number_of_registers, strength)

\* createLink recording toVar's table by its 1-based position.
createLinkFunc_oneBased(tabs, fromVar, toVar, strength) ==
    LET t1 == appendLink(tabs, fromVar,
                         variableLink(variableReference(
                             toVar.indexOfRegisterAllocationTable + 1,
                             toVar.nameOfVariableWithinTable), strength))
        t2 == appendLink(t1, toVar, variableLink(fromVar, strength))
        t3 == addToTableCell(t2, fromVar, number_of_registers, strength)
    IN  addToTableCell(t3, toVar, number_of_registers, strength)

createLinkFunc(tabs, fromVar, toVar, strength) ==
    LET t1 == appendLink(tabs, fromVar, variableLink(toVar, strength))
        t2 == appendLink(t1, toVar, variableLink(fromVar, strength))
        t3 == addToTableCell(t2, fromVar, number_of_registers, strength)
    IN  addToTableCell(t3, toVar, number_of_registers, strength)

\* del l[k] for a 0-based k
delAt(l, k) == SubSeq(l, 1, k) \o SubSeq(l, k + 2, Len(l))

\* filter(l, func): deletes, in place, the items func holds of; pred is func
\* as a table over the items of l.
filter(l, pred) ==
    LET indexesToDelete ==
            SelectSeq([i \in 1..Len(l) |-> i - 1], LAMBDA i : pred[l[i + 1]])
        run[removed \in 0..Len(indexesToDelete)] ==
            IF removed = 0 THEN l
            ELSE delAt(run[removed - 1], indexesToDelete[removed] - (removed - 1))
    IN  run[Len(indexesToDelete)]

\* One pass of `for link in rowData.links`, started at position i of the list
\* object of var, which the body may shorten while the loop runs.
RECURSIVE allocateLoop(_, _, _, _)
allocateLoop(tabs, var, register, i) ==
    LET l == Row(tabs, var).links IN
    IF i >= Len(l) THEN tabs
    ELSE LET link == l[i + 1]
             t1 == addToTableCell(tabs, link.variable, register, link.strength)
             t2 == addToTableCell(t1, link.variable, number_of_registers, -link.strength)
             t3 == setLinks(t2, link.variable,
                            filter(Row(t2, link.variable).links,
                                   [k \in Range(Row(t2, link.variable).links)
                                       |-> k.variable = var]))
         IN  allocateLoop(t3, var, register, i + 1)

allocateRegisterToVariableFunc(tabs, var, register) ==
    setLinks(allocateLoop(tabs, var, register, 0), var, <<>>)

(***************************************************************************)
(* The graph as a state machine: the calls a script pipes the graph        *)
(* through.  A call that raises leaves the data as it was (every lookup    *)
(* that can raise comes before the first assignment) and ends the script:  *)
(* nothing catches the exception.                                          *)
(***************************************************************************)
\* Fills the argument slots of `last` a call does not have.
NoRef == variableReference(-1, "")

NoIter ==
    /\ mode = "graph" /\ pc = "idle" /\ goal = <<0, 1>> /\ min = 0 /\ max = 0
    /\ input = 0 /\ func = <<>> /\ elems = <<>> /\ padding = 0 /\ target = <<1, 1>>
    /\ ret = <<>> /\ scale = <<0, 1>>
    /\ hist = [min0 |-> 0, max0 |-> 0, passed |-> {}, calls |-> 0]

InitGraph(links, allocs, calls) ==
    /\ tables = generateRegisterAllocationGraph(varNamesList)
    /\ last = [op |-> "generateRegisterAllocationGraph", fromVar |-> NoRef, toVar |-> NoRef,
               strength |-> 0, register |-> 0, err |-> "none"]
    /\ allocated = {}
    /\ linksLeft = links
    /\ allocsLeft = allocs
    /\ callsLeft = calls
    /\ NoIter

Init == InitGraph(MaxCalls, MaxCalls, MaxCalls)

InitDeep == InitGraph(DeepLinks, DeepAllocs, DeepLinks + DeepAllocs)

\* The exception createLink(fromVar, toVar, strength) raises on tabs, or "none".
createLinkError(tabs, fromVar, toVar) ==
    IF getRowFromVarRef(tabs, fromVar) # "none" THEN getRowFromVarRef(tabs, fromVar)
    ELSE getRowFromVarRef(tabs, toVar)

\* The exception allocateRegisterToVariable(var, register) raises on tabs, or "none".
allocateRegisterToVariableError(tabs, var, register) ==
    IF getRowFromVarRef(tabs, var) # "none" THEN getRowFromVarRef(tabs, var)
    ELSE getColFromRegister(register)

createLink(fromVar, toVar, strength) ==
    LET err == createLinkError(tables, fromVar, toVar) IN
    /\ mode = "graph"
    /\ last.err = "none"
    /\ err = "none" => linksLeft > 0 /\ callsLeft > 0
    /\ last' = [op |-> "createLink", fromVar |-> fromVar, toVar |-> toVar,
                strength |-> strength, register |-> 0, err |-> err]
    /\ IF err = "none"
       THEN /\ tables' = createLinkFunc(tables, fromVar, toVar, strength)
            /\ linksLeft' = linksLeft - 1
            /\ callsLeft' = callsLeft - 1
       ELSE UNCHANGED <<tables, linksLeft, callsLeft>>
    /\ UNCHANGED <<allocated, allocsLeft>>
    /\ UNCHANGED ivars

allocateRegisterToVariable(var, register) ==
    LET err == allocateRegisterToVariableError(tables, var, register) IN
    /\ mode = "graph"
    /\ last.err = "none"
    /\ err = "none" => allocsLeft > 0 /\ callsLeft > 0
    /\ last' = [op |-> "allocateRegisterToVariable", fromVar |-> var, toVar |-> NoRef,
                strength |-> 0, register |-> register, err |-> err]
    /\ IF err = "none"
       THEN /\ tables' = allocateRegisterToVariableFunc(tables, var, register)
            /\ allocated' = allocated \cup {var}
            /\ allocsLeft' = allocsLeft - 1
            /\ callsLeft' = callsLeft - 1
       ELSE UNCHANGED <<tables, allocated, allocsLeft, callsLeft>>
    /\ UNCHANGED linksLeft
    /\ UNCHANGED ivars

\* Calls on existing variables and registers r0..r3.
CreateLink ==
    \E fromVar \in ValidRefs, toVar \in ValidRefs, strength \in 1..MaxStrength :
        createLink(fromVar, toVar, strength)

AllocateRegisterToVariable ==
    \E var \in ValidRefs, register \in 0..(number_of_registers - 1) :
        allocateRegisterToVariable(var, register)

Next == CreateLink \/ AllocateRegisterToVariable

Spec == Init /\ [][Next]_vars

\* The same calls, in longer runs.
SpecDeep == InitDeep /\ [][Next]_vars

\* Calls with any table index, name and register.
CreateLinkAny ==
    \E fromVar \in AllRefs, toVar \in AllRefs, strength \in 1..MaxStrength :
        createLink(fromVar, toVar, strength)

AllocateRegisterToVariableAny ==
    \E var \in AllRefs, register \in 0..MaxRegister :
        allocateRegisterToVariable(var, register)

NextAny == CreateLinkAny \/ AllocateRegisterToVariableAny

InitAny == InitGraph(AnyCalls, AnyCalls, AnyCalls)

SpecAny == InitAny /\ [][NextAny]_vars

(***************************************************************************)
(* iterateToSolution and arrangeInGrid.  Lengths are integers and a float  *)
(* quotient a / b is kept as the ratio <<a, b>>, b > 0, compared exactly.  *)
(***************************************************************************)
Gt(a, b) == a[1] * b[2] > b[1] * a[2]

\* math.ceil((min+max)/2)
ceilHalf_floor(lo, hi) == (lo + hi) \div 2
ceilHalf(lo, hi) == (lo + hi + 1) \div 2

RECURSIVE SumSeq(_)
SumSeq(l) == IF l = <<>> THEN 0 ELSE Head(l) + SumSeq(Tail(l))

MaxOf(S) == CHOOSE m \in S : \A x \in S : x <= m

\* calculateAspectRatio(numberOfColumns) of arrangeInGrid, on es with padding pad:
\* <<width / height, <<width, height, columnWidths, rowHeights>>>>
calculateAspectRatio(es, pad, numberOfColumns) ==
    LET numberOfRows == (Len(es) + numberOfColumns - 1) \div numberOfColumns
        columnWidths ==
            [x \in 1..numberOfColumns |->
                MaxOf({0} \cup {es[i][1] : i \in {j \in 1..Len(es) :
                                        (j - 1) % numberOfColumns = x - 1}})]
        rowHeights ==
            [y \in 1..numberOfRows |->
                MaxOf({0} \cup {es[i][2] : i \in {j \in 1..Len(es) :
                                        (j - 1) \div numberOfColumns = y - 1}})]
        width == pad * (numberOfColumns - 1) + SumSeq(columnWidths)
        height == pad * (numberOfRows - 1) + SumSeq(rowHeights)
    IN  <<<<width, height>>, <<width, height, columnWidths, rowHeights>>>>

\* func(input): <<value, output>>
Func(i) ==
    IF mode = "grid" THEN calculateAspectRatio(elems, padding, i) ELSE func[i]

\* Sizes of elements, targets and paddings arrangeInGrid is tried on.
Sizes == {<<1, 1>>, <<2, 1>>, <<1, 2>>}
Targets == {<<1, 1>>, <<2, 1>>, <<1, 2>>, <<3, 2>>}
Paddings == {0, 1}

ElemLists == UNION {[1..n -> Sizes] : n \in 1..MaxElems}

NoGraph ==
    /\ tables = <<>>
    /\ last = [op |-> "none", fromVar |-> NoRef, toVar |-> NoRef,
               strength |-> 0, register |-> 0, err |-> "none"]
    /\ allocated = {} /\ linksLeft = 0 /\ allocsLeft = 0 /\ callsLeft = 0

\* iterateToSolution(goal, min, max, func) is called on a tabulated func whose
\* output for input i is the token <<"output", i>>.
InitFunc ==
    /\ NoGraph
    /\ mode = "func"
    /\ pc = "call"
    /\ \E g \in 0..MaxValue : goal = <<g, 1>>
    /\ max \in 1..MaxMax
    /\ min \in 0..(max - 1)
    /\ \E f \in [1..max -> 0..MaxValue] :
         func = [i \in 1..max |-> <<<<f[i], 1>>, <<"output", i>>>>]
    /\ input = 0
    /\ elems = <<>> /\ padding = 0 /\ target = <<1, 1>>
    /\ ret = <<>> /\ scale = <<0, 1>>
    /\ hist = [min0 |-> min, max0 |-> max, passed |-> {}, calls |-> 0]

\* arrangeInGrid(targetWidth, targetHeight, padding, *elems) reaches its call
\* iterateToSolution(targetAspectRatio, 0, len(elems), calculateAspectRatio).
InitGrid ==
    /\ NoGraph
    /\ mode = "grid"
    /\ pc = "call"
    /\ elems \in ElemLists
    /\ padding \in Paddings
    /\ target \in Targets
    /\ goal = target
    /\ min = 0
    /\ max = Len(elems)
    /\ func = <<>>
    /\ input = 0
    /\ ret = <<>> /\ scale = <<0, 1>>
    /\ hist = [min0 |-> min, max0 |-> max, passed |-> {}, calls |-> 0]

InitIter == InitFunc \/ InitGrid

\* input = math.ceil((min+max)/2)
IterateStart ==
    /\ pc = "call"
    /\ input' = ceilHalf(min, max)
    /\ pc' = "loop"
    /\ UNCHANGED <<mode, goal, min, max, func, elems, padding, target, ret, scale, hist>>
    /\ UNCHANGED gvars

\* One pass of the `while True` loop.
IterateLoop ==
    /\ pc = "loop"
    /\ LET value == Func(input)[1]
           output == Func(input)[2]
           newMax == IF Gt(value, goal) THEN input ELSE max
           newMin == IF Gt(value, goal) THEN min ELSE input
           newInput == ceilHalf(newMin, newMax)
       IN  /\ min' = newMin
           /\ max' = newMax
           /\ hist' = [hist EXCEPT !.passed = @ \cup {input}, !.calls = @ + 1]
           /\ IF input = newInput
              THEN /\ ret' = <<<<input, 1>>, output>>
                   /\ pc' = "returned"
                   /\ UNCHANGED input
              ELSE /\ input' = newInput
                   /\ UNCHANGED <<ret, pc>>
    /\ UNCHANGED <<mode, goal, func, elems, padding, target, scale>>
    /\ UNCHANGED gvars

\* arrangeInGrid binds aspectRatio, (width, height, ...) to the result and
\* chooses the scale.
ArrangeScale ==
    /\ mode = "grid"
    /\ pc = "returned"
    /\ LET aspectRatio == ret[1]
           width == ret[2][1]
           height == ret[2][2]
       IN  scale' = IF Gt(goal, aspectRatio)
                    THEN <<target[2], height>>
                    ELSE <<target[1], width>>
    /\ pc' = "done"
    /\ UNCHANGED <<mode, goal, min, max, input, func, elems, padding, target, ret, hist>>
    /\ UNCHANGED gvars

NextIter == IterateStart \/ IterateLoop \/ ArrangeScale

\* The script is single-threaded and synchronous: a step that can be taken is taken.
SpecIter == InitIter /\ [][NextIter]_vars /\ WF_vars(NextIter)

(***************************************************************************)
(* Vocabulary of the properties.                                           *)
(***************************************************************************)
Links(tabs, v) == Row(tabs, v).links

Prioraty(tabs, v, register) == Row(tabs, v).prioraties[register + 1]

Unknown(tabs, v) == Prioraty(tabs, v, number_of_registers)

Registers == 0..(number_of_registers - 1)

\* Number of records of l that point to `to` with strength s.
CountLinks(l, to, s) ==
    Cardinality({i \in DOMAIN l : l[i].variable = to /\ l[i].strength = s})

RECURSIVE SumStrengths(_)
SumStrengths(l) ==
    IF l = <<>> THEN 0 ELSE Head(l).strength + SumStrengths(Tail(l))

\* Total strength of the records of l that point to `to`.
StrengthTo(l, to) == SumStrengths(SelectSeq(l, LAMBDA k : k.variable = to))

PointsTo(l, to) == \E i \in DOMAIN l : l[i].variable = to

\* The step is a call of createLink / allocateRegisterToVariable that completed;
\* last' holds its arguments.
CreateLinkStep == last'.op = "createLink" /\ last'.err = "none"

AllocateStep == last'.op = "allocateRegisterToVariable" /\ last'.err = "none"

(***************************************************************************)
(* C1: links are undirected: in every reachable state, for all variable    *)
(* references A and B and every strength s, A's link list holds as many    *)
(* records pointing to B with strength s as B's holds pointing to A.       *)
(***************************************************************************)
C1_LinksUndirected ==
    \A A \in ValidRefs, B \in ValidRefs, s \in 1..MaxStrength :
        CountLinks(Links(tables, A), B, s) = CountLinks(Links(tables, B), A, s)

(***************************************************************************)
(* C2: a completed createLink(fromVar, toVar, strength) appends one record *)
(* to each endpoint, adds exactly strength to the Unknown column of each   *)
(* endpoint, and changes no register column and no cell of another         *)
(* variable.                                                               *)
(***************************************************************************)
RegisterColumnsUnchanged ==
    \A w \in ValidRefs, r \in Registers : Prioraty(tables', w, r) = Prioraty(tables, w, r)

OthersUnchanged(f, t) ==
    \A w \in ValidRefs \ {f, t} : Row(tables', w).prioraties = Row(tables, w).prioraties

\* C2 as stated, for any two references to existing variables.
C2_CreateLinkAsStated ==
    [][CreateLinkStep =>
        LET f == last'.fromVar
            t == last'.toVar
            s == last'.strength
        IN
            /\ Links(tables', f) = Append(Links(tables, f), variableLink(t, s))
            /\ Links(tables', t) = Append(Links(tables, t), variableLink(f, s))
            /\ Unknown(tables', f) = Unknown(tables, f) + s
            /\ Unknown(tables', t) = Unknown(tables, t) + s
            /\ RegisterColumnsUnchanged
            /\ OthersUnchanged(f, t)]_vars

\* C2 as amended: as stated when fromVar and toVar are different variables;
\* when they are the same variable, that variable gets both records and its
\* Unknown column grows by twice the strength.
C2_CreateLink ==
    [][CreateLinkStep =>
        LET f == last'.fromVar
            t == last'.toVar
            s == last'.strength
        IN
            /\ f # t =>
                /\ Links(tables', f) = Append(Links(tables, f), variableLink(t, s))
                /\ Links(tables', t) = Append(Links(tables, t), variableLink(f, s))
                /\ Unknown(tables', f) = Unknown(tables, f) + s
                /\ Unknown(tables', t) = Unknown(tables, t) + s
            /\ f = t =>
                /\ Links(tables', f)
                     = Links(tables, f) \o <<variableLink(f, s), variableLink(f, s)>>
                /\ Unknown(tables', f) = Unknown(tables, f) + 2 * s
            /\ RegisterColumnsUnchanged
            /\ OthersUnchanged(f, t)]_vars

\* createLink has linked two different variables, of different tables, with
\* strength 2, and a variable to itself.
C2_Witness ==
    /\ last.op = "createLink"
    /\ \E v \in ValidRefs, w \in ValidRefs :
        /\ v.indexOfRegisterAllocationTable # w.indexOfRegisterAllocationTable
        /\ Links(tables, v) = <<variableLink(w, 2)>>
        /\ Links(tables, w) = <<variableLink(v, 2), variableLink(w, 1), variableLink(w, 1)>>
        /\ Unknown(tables, v) = 2
        /\ Unknown(tables, w) = 4

(***************************************************************************)
(* C3: a completed allocateRegisterToVariable(var, register) folds every   *)
(* link of var into the register column: for each variable w, with T the   *)
(* total strength of the records var holds that point to w, w's priority   *)
(* for the register grows by exactly T and w's Unknown column shrinks by   *)
(* exactly T (w may be var itself).                                        *)
(***************************************************************************)
C3_AllocateFoldsEveryLink ==
    [][AllocateStep =>
        LET var == last'.fromVar
            register == last'.register
        IN
            \A w \in ValidRefs :
                LET T == StrengthTo(Links(tables, var), w) IN
                /\ Prioraty(tables', w, register) = Prioraty(tables, w, register) + T
                /\ Unknown(tables', w) = Unknown(tables, w) - T]_vars

(***************************************************************************)
(* C4: after a completed allocateRegisterToVariable(var, register), var's  *)
(* link list is empty, no link list holds a record pointing to var, and    *)
(* the records between variables other than var are all still there, in    *)
(* their order.                                                            *)
(***************************************************************************)
C4_NoResolvedLinkRemains ==
    [][AllocateStep =>
        LET var == last'.fromVar
            register == last'.register
        IN
            /\ Links(tables', var) = <<>>
            /\ \A w \in ValidRefs :
                /\ ~PointsTo(Links(tables', w), var)
                /\ w # var =>
                     SelectSeq(Links(tables', w), LAMBDA k : k.variable # var)
                       = SelectSeq(Links(tables, w), LAMBDA k : k.variable # var)]_vars

(***************************************************************************)
(* C5: indices stay in range: every priority list has                      *)
(* number_of_registers + 1 entries, every table has the variable names it  *)
(* was constructed with, and every link record names a table of the graph  *)
(* and a variable of that table.                                           *)
(***************************************************************************)
C5_IndicesInRange ==
    /\ DOMAIN tables = DOMAIN varNamesList
    /\ \A i \in DOMAIN tables :
        /\ DOMAIN tables[i].data = Range(varNamesList[i])
        /\ \A n \in DOMAIN tables[i].data :
            /\ Len(tables[i].data[n].prioraties) = number_of_registers + 1
            /\ \A k \in DOMAIN tables[i].data[n].links :
                LET v == tables[i].data[n].links[k].variable IN
                /\ v.indexOfRegisterAllocationTable \in 0..(Len(tables) - 1)
                /\ v.nameOfVariableWithinTable
                     \in DOMAIN tables[v.indexOfRegisterAllocationTable + 1].data

\* Both operations have acted: an allocation has folded a link into a register
\* column and another link is still in place.
C5_Witness ==
    /\ last.op = "allocateRegisterToVariable"
    /\ \E v \in ValidRefs, w \in ValidRefs, r \in Registers :
        /\ Links(tables, v) # <<>>
        /\ Prioraty(tables, w, r) > 0

(***************************************************************************)
(* C7: the Unknown column is the sum of unallocated affinity: for every    *)
(* variable allocateRegisterToVariable has not been applied to, the        *)
(* Unknown column equals the sum of the strengths of its link records.     *)
(***************************************************************************)
C7_UnknownIsSumOfLinks ==
    \A v \in ValidRefs \ allocated :
        Unknown(tables, v) = SumStrengths(Links(tables, v))

(***************************************************************************)
(* C6: the only error path is the type assertion of convertToType: a call  *)
(* of createLink or allocateRegisterToVariable with any table index, any   *)
(* variable name and any register completes or fails with AssertionError.  *)
(***************************************************************************)
C6_OnlyAssertionError == last.err \in {"none", "AssertionError"}

\* What the constructed graph makes of a reference, from the name lists alone.
LookupOutcome(ref) ==
    IF ref.indexOfRegisterAllocationTable >= Len(varNamesList) THEN "IndexError"
    ELSE IF ref.nameOfVariableWithinTable
              \notin Range(varNamesList[ref.indexOfRegisterAllocationTable + 1])
         THEN "ValueError"
         ELSE "none"

\* C6 as amended, for table indices and registers >= 0: a call whose references
\* all name a table of the graph and a variable of that table, with a register
\* in 0..number_of_registers, completes without any error; a table index past
\* the last table raises IndexError, a name the table does not have raises
\* ValueError (the first bad reference decides), and a register above
\* number_of_registers raises IndexError; AssertionError is never raised.
C6_ErrorsOfCalls ==
    /\ last.op = "createLink" =>
          last.err = IF LookupOutcome(last.fromVar) # "none"
                     THEN LookupOutcome(last.fromVar)
                     ELSE LookupOutcome(last.toVar)
    /\ last.op = "allocateRegisterToVariable" =>
          last.err = IF LookupOutcome(last.fromVar) # "none"
                     THEN LookupOutcome(last.fromVar)
                     ELSE IF last.register > number_of_registers THEN "IndexError"
                     ELSE "none"

\* A call has failed with an error that is not the type assertion, after
\* another call completed.
C6_Witness ==
    /\ last.op = "allocateRegisterToVariable"
    /\ last.err = "ValueError"
    /\ last.fromVar = variableReference(1, "ghost")
    /\ callsLeft < AnyCalls

(***************************************************************************)
(* Vocabulary of the properties of iterateToSolution.                      *)
(***************************************************************************)
Returned == pc \in {"returned", "done"}

NonDecreasing(f) == \A i \in DOMAIN f, j \in DOMAIN f : i <= j => ~Gt(f[i][1], f[j][1])

Abs(x) == IF x < 0 THEN -x ELSE x

\* |a - g| as a ratio
Distance(a, g) == <<Abs(a[1] * g[2] - g[1] * a[2]), a[2] * g[2]>>

(***************************************************************************)
(* C8: for every non-decreasing func over 1..max,                          *)
(* iterateToSolution(goal, 0, max, func) ends on an input of 1..max whose  *)
(* value is as close to goal as any (no input of 1..max has a value        *)
(* strictly closer), and returns func's output for that input.             *)
(***************************************************************************)
C8_EndsOnClosestInput ==
    (mode = "func" /\ pc = "returned" /\ hist.min0 = 0 /\ NonDecreasing(func)) =>
        /\ input \in 1..hist.max0
        /\ \A j \in 1..hist.max0 :
             ~Gt(Distance(func[input][1], goal), Distance(func[j][1], goal))
        /\ ret[2] = func[input][2]

(***************************************************************************)
(* C9: the first component iterateToSolution returns is the value func     *)
(* computed for the chosen input: in arrangeInGrid aspectRatio equals      *)
(* width / height of the layout returned with it, so scale is              *)
(* targetHeight / height exactly when the target aspect ratio is greater   *)
(* than the layout's aspect ratio, and targetWidth / width otherwise.      *)
(***************************************************************************)
C9_FirstComponentIsValue ==
    (mode = "grid" /\ pc = "done") =>
        LET width == ret[2][1]
            height == ret[2][2]
        IN  /\ ret[1][1] * height = width * ret[1][2]
            /\ scale = IF Gt(goal, <<width, height>>)
                       THEN <<target[2], height>>
                       ELSE <<target[1], width>>

(***************************************************************************)
(* C10: iterateToSolution(goal, min, max, func) with 0 <= min < max        *)
(* returns after finitely many calls of func, and every input it passes to *)
(* func lies in min+1..max; so arrangeInGrid, given at least one element,  *)
(* never evaluates calculateAspectRatio with 0 columns.                    *)
(***************************************************************************)
InputsInRange ==
    /\ hist.passed \subseteq (hist.min0 + 1)..hist.max0
    /\ pc = "loop" => input \in (hist.min0 + 1)..hist.max0
    /\ mode = "grid" => 0 \notin hist.passed

C10_TerminatesInRange == []InputsInRange /\ <>Returned

\* A search that called func more than once, moving min and max, has returned.
C10_Witness ==
    /\ pc = "returned"
    /\ hist.calls >= 3
    /\ hist.min0 = 1
    /\ min > hist.min0
    /\ max < hist.max0

====
